---- MODULE Spec2Model ----
(***************************************************************************)
(* Model of the AIOps ping monitor (aiops_monitor.py): the probe, the      *)
(* sample recorder, the consecutive-loss tracker, the anomaly classifier   *)
(* and the alert dispatch of main()'s tick loop.                           *)
(***************************************************************************)
EXTENDS Integers, Sequences, FiniteSets, TLC

\* ---------------------------------------------------------------- settings
TARGETS == <<"8.8.8.8", "1.1.1.1">>

PACKET_LOSS_THRESHOLD_PERCENT == 50

CONSECUTIVE_LOSS_TRIGGER == 3

\* Rounds of the `while True` loop that are explored.
MaxRounds == 5

\* train_model.py, line 38: the fewest valid samples a model is fitted on.
MinSamples == 50

\* Numbers of valid samples a target can have in ping_data.csv.
SampleCounts == {0, 49, 50}

\* Python's None for an RTT that could not be read (RTTs are >= 0).
None == -1

TargetSet == {TARGETS[i] : i \in 1..Len(TARGETS)}

\* Values the two regular expressions of parse_ping_output can capture.
RttVals == {20, 250}

LossVals == {0, 49, 50, 100}

\* A re.search result: no match, a capture float() rejects ("1.2.3"), or
\* a capture with its value.
NoMatch == [m |-> "nomatch", v |-> 0]

BadFloat == [m |-> "badfloat", v |-> 0]

RttMatches == {NoMatch, BadFloat} \cup [m : {"float"}, v : RttVals]

LossMatches == {NoMatch} \cup [m : {"float"}, v : LossVals]

\* What subprocess.run can do in execute_ping.
ProbeOutcomes ==
    {[kind |-> "timeout", rttm |-> NoMatch, lossm |-> NoMatch],
     [kind |-> "error", rttm |-> NoMatch, lossm |-> NoMatch]}
    \cup [kind : {"output"}, rttm : RttMatches, lossm : LossMatches]

\* IsolationForest.predict: inlier (1), outlier (-1), or an exception.
Predictions == {"inlier", "outlier", "raise"}

\* requests.post: status 200, another status, or an exception.
HttpOutcomes == {"ok", "status", "exception"}

VARIABLES
    pc,                         \* position in main()
    idx,                        \* index of the target of the for loop
    round,                      \* completed rounds of the while loop
    consecutive_loss_counters,  \* the global dict, target -> count
    loaded_models,              \* targets that have a loaded model
    TELEGRAM_ENABLED,           \* config flag
    credentials_set,            \* token and chat id differ from placeholders
    rtt, packet_loss,           \* result of the latest execute_ping
    pending,                    \* alert handed to send_telegram_alert
    lastDispatch,               \* what the latest send_telegram_alert did
    exit,                       \* how main() ended
    ev,                         \* what the current (latest) tick did
    run,                        \* history: length of the current losing run
    sinceAlert,                 \* history: ticks since the last outage alert
    alertsInRun,                \* history: outage alerts in the current run
    posts,                      \* requests.post calls of the latest dispatch
    alerts,                     \* calls of send_telegram_alert, by kind
    interrupted,                \* a KeyboardInterrupt was raised
    probes,                     \* execute_ping calls of the round, by target
    csv,                        \* ping_data.csv: header and record counts
    storage,                    \* targets that have a model file on disk
    samples,                    \* valid (RTT-bearing) CSV rows, by target
    permuted,                   \* a round's result, targets in some order
    canonical                   \* the same round's result, in TARGETS order

vars == <<pc, idx, round, consecutive_loss_counters, loaded_models,
          TELEGRAM_ENABLED, credentials_set, rtt, packet_loss, pending,
          lastDispatch, exit, ev, run, sinceAlert, alertsInRun, posts,
          alerts, interrupted, probes, csv, storage, samples, permuted,
          canonical>>

Min(a, b) == IF a < b THEN a ELSE b

\* ------------------------------------------------------------------ probe
\* parse_ping_output: float() of a capture such as "1.2.3" raises
\* ValueError, which the (IndexError, TypeError) handler does not catch.
parse_ping_output(rttm, lossm) ==
    IF rttm.m = "badfloat"
    THEN [raised |-> TRUE, rtt |-> None, loss |-> 100]
    ELSE LET r == IF rttm.m = "nomatch" THEN None ELSE rttm.v
             l == IF lossm.m = "nomatch" THEN 100 ELSE lossm.v
         IN [raised |-> FALSE, rtt |-> r, loss |-> l]

execute_ping_uncaught(o) ==
    IF o.kind = "timeout"
    THEN [raised |-> FALSE, rtt |-> None, loss |-> 100]
    ELSE IF o.kind = "error"
    THEN [raised |-> TRUE, rtt |-> None, loss |-> 100]
    ELSE parse_ping_output(o.rttm, o.lossm)

\* execute_ping: TimeoutExpired and every other Exception give (None, 100.0).
execute_ping(o) ==
    IF o.kind \in {"timeout", "error"}
    THEN [raised |-> FALSE, rtt |-> None, loss |-> 100]
    ELSE LET p == parse_ping_output(o.rttm, o.lossm)
         IN IF p.raised
            THEN [raised |-> FALSE, rtt |-> None, loss |-> 100]
            ELSE p

\* The probe could not complete: timeout, or an error running or parsing.
ProbeFailed(o) ==
    \/ o.kind \in {"timeout", "error"}
    \/ o.kind = "output" /\ o.rttm.m = "badfloat"

\* -------------------------------------------------------- failure tracker
track_keep(count, loss) ==
    IF loss >= PACKET_LOSS_THRESHOLD_PERCENT THEN count + 1 ELSE count

track_strict(count, loss) ==
    IF loss > PACKET_LOSS_THRESHOLD_PERCENT THEN count + 1 ELSE 0

\* Lines 221-224: count a losing reading, reset on any other.
track(count, loss) ==
    IF loss >= PACKET_LOSS_THRESHOLD_PERCENT THEN count + 1 ELSE 0

should_alert_late(count) == count > CONSECUTIVE_LOSS_TRIGGER

\* Line 226.
should_alert(count) == count >= CONSECUTIVE_LOSS_TRIGGER

after_alert_keep(count) == count

after_alert_one(count) == 1

\* Line 235: reset after the alert was handed to the dispatcher.
after_alert(count) == 0

runs_classifier_if(fired, r) == r # None

\* Line 238: the elif of the outage branch.
runs_classifier(fired, r) == ~fired /\ r # None

\* ------------------------------------------------------------- classifier
check_rtt_anomaly_unguarded(target, models, prediction) ==
    IF prediction = "raise"
    THEN [raised |-> TRUE, is_anomaly |-> FALSE, reason |-> "raised"]
    ELSE IF prediction = "outlier"
    THEN [raised |-> FALSE, is_anomaly |-> TRUE,
          reason |-> "AI model detected anomalous RTT"]
    ELSE [raised |-> FALSE, is_anomaly |-> FALSE,
          reason |-> "RTT is within normal range."]

\* check_rtt_anomaly: `prediction` is what the loaded model's predict does.
check_rtt_anomaly(target, models, prediction) ==
    IF target \notin models
    THEN [raised |-> FALSE, is_anomaly |-> FALSE,
          reason |-> "No model available."]
    ELSE IF prediction = "raise"
    THEN [raised |-> TRUE, is_anomaly |-> FALSE, reason |-> "raised"]
    ELSE IF prediction = "outlier"
    THEN [raised |-> FALSE, is_anomaly |-> TRUE,
          reason |-> "AI model detected anomalous RTT"]
    ELSE [raised |-> FALSE, is_anomaly |-> FALSE,
          reason |-> "RTT is within normal range."]

\* ---------------------------------------------------------- model storage
\* train_and_save_models: a target with at least 50 valid samples gets its
\* file (re)written by joblib.dump; a target with fewer is skipped by
\* `continue`, a target without any valid sample is not in unique_targets
\* (or the function returns early); no branch removes a file.
train_and_save_models(files, counts) ==
    files \cup {t \in DOMAIN counts : counts[t] >= MinSamples}

\* load_ai_models: a target gets a model when its file exists and
\* joblib.load does not raise.
load_ai_models(files, failing) ==
    {t \in TargetSet : t \in files /\ t \notin failing}

\* ------------------------------------------------------------- dispatcher
\* send_telegram_alert: returns normally in every case.
send_telegram_alert(enabled, creds, http) ==
    IF ~enabled THEN "disabled"
    ELSE IF ~creds THEN "nocreds"
    ELSE IF http = "ok" THEN "sent"
    ELSE IF http = "status" THEN "failed_status"
    ELSE "failed_exception"

http_attempts_retry(enabled, creds, http) ==
    IF enabled /\ creds THEN (IF http = "ok" THEN 1 ELSE 2) ELSE 0

\* Lines 158-174: requests.post is called once, and only when enabled and
\* configured; no branch calls it again.
http_attempts(enabled, creds, http) ==
    IF enabled /\ creds THEN 1 ELSE 0

send_raises_uncaught(enabled, creds, http) ==
    enabled /\ creds /\ http = "exception"

\* Lines 173-180: every Exception of requests.post is caught and printed.
send_raises(enabled, creds, http) == FALSE

counter_after_dispatch_on_success(count, outcome) ==
    IF outcome = "sent" THEN after_alert(count) ELSE count

\* Lines 234-235: send_telegram_alert returns nothing, the reset that
\* follows it does not depend on what the dispatch did.
counter_after_dispatch(count, outcome) == after_alert(count)

after_handler_resume == "probe"

\* Lines 252-259: after the handler's alert main() returns.
after_handler == "done"

\* ------------------------------------------------------------ sample log
\* ping_data.csv: whether it existed when main() started, the headers
\* this run wrote, the records of before this run, the records of this run.
NoFile == [existed |-> FALSE, headers |-> 0, old |-> 0, new |-> 0]

CsvStates ==
    {NoFile} \cup [existed : {TRUE}, headers : {0}, old : {2}, new : {0}]

create_header_always(c) == [c EXCEPT !.headers = @ + 1, !.old = 0]

\* Lines 188-190: a missing file is created with the header line.
create_header(c) ==
    IF c.existed THEN c ELSE [c EXCEPT !.headers = @ + 1]

append_sample_truncate(c) == [c EXCEPT !.old = 0, !.new = 1]

\* Lines 216-217: open in mode 'a' and write one line.
append_sample(c) == [c EXCEPT !.new = @ + 1]

\* ------------------------------------------------------------------- main
NoEvent ==
    [target |-> "none", decided |-> FALSE, probeFailed |-> FALSE,
     before |-> 0, outage |-> FALSE, classified |-> FALSE,
     anomaly |-> FALSE, reason |-> "", fault |-> "none", gap |-> -1]

\* Result of a round: the counters, the alerts sent, the loop ended.
NoRound ==
    [counters |-> [t \in TargetSet |-> 0], alerts |-> {}, fatal |-> FALSE]

InitVars ==
    /\ permuted = NoRound
    /\ canonical = NoRound
    /\ idx = 1
    /\ round = 0
    /\ consecutive_loss_counters = [t \in TargetSet |-> 0]
    /\ loaded_models = {}
    /\ TELEGRAM_ENABLED \in BOOLEAN
    /\ credentials_set \in BOOLEAN
    /\ (~TELEGRAM_ENABLED => ~credentials_set)
    /\ rtt = None
    /\ packet_loss = 0
    /\ pending = "none"
    /\ lastDispatch = "none"
    /\ exit = "running"
    /\ ev = NoEvent
    /\ run = [t \in TargetSet |-> 0]
    /\ sinceAlert = [t \in TargetSet |-> -1]
    /\ alertsInRun = [t \in TargetSet |-> 0]
    /\ posts = 0
    /\ alerts = [startup |-> 0, shutdown |-> 0, fatal |-> 0]
    /\ interrupted = FALSE
    /\ probes = [t \in TargetSet |-> 0]

\* The training script did not run: no valid sample yet.
NoSamples == [t \in TargetSet |-> 0]

InitBase == pc = "start" /\ InitVars /\ samples = NoSamples

\* main() started where no ping_data.csv exists yet; model storage holds a
\* file for every target (a file that fails to load leaves its target
\* without a model, as a missing file does).
Init == InitBase /\ csv = NoFile /\ storage = TargetSet

\* End of the for body: next target, or time.sleep after the last one.
NextTarget ==
    IF idx < Len(TARGETS)
    THEN /\ idx' = idx + 1
         /\ pc' = "probe"
    ELSE /\ idx' = idx
         /\ pc' = "sleep"

\* Lines 188-198: header, load_ai_models, startup message handed over.
Startup(present) ==
    /\ pc = "start"
    /\ \E failing \in SUBSET TargetSet :
           present = load_ai_models(storage, failing)
    /\ loaded_models' = present
    /\ pending' = "startup"
    /\ alerts' = [alerts EXCEPT !.startup = @ + 1]
    /\ pc' = "dispatch"
    /\ UNCHANGED <<idx, round, consecutive_loss_counters, TELEGRAM_ENABLED,
                   credentials_set, rtt, packet_loss, lastDispatch, exit, ev,
                   run, sinceAlert, alertsInRun, posts, interrupted,
                   probes,
                   storage, samples, permuted, canonical>>
    /\ csv' = create_header(csv)

\* Line 208: execute_ping for the current target.
Probe(o) ==
    /\ pc = "probe"
    /\ LET p == execute_ping(o)
       IN /\ ev' = [NoEvent EXCEPT !.target = TARGETS[idx],
                                   !.probeFailed = ProbeFailed(o),
                                   !.fault = IF p.raised THEN "probe"
                                             ELSE "none"]
          /\ rtt' = p.rtt
          /\ packet_loss' = p.loss
          /\ IF p.raised
             THEN /\ pending' = "fatal"
                  /\ alerts' = [alerts EXCEPT !.fatal = @ + 1]
                  /\ pc' = "dispatch"
             ELSE /\ pending' = "none"
                  /\ alerts' = alerts
                  /\ pc' = "record"
    /\ UNCHANGED <<idx, round, consecutive_loss_counters, loaded_models,
                   TELEGRAM_ENABLED, credentials_set, lastDispatch, exit,
                   run, sinceAlert, alertsInRun, posts, interrupted, csv,
                   storage, samples, permuted, canonical>>
    /\ probes' = [probes EXCEPT ![TARGETS[idx]] = @ + 1]

\* Lines 216-217: append the sample; open/write may raise OSError, which
\* only the `except Exception` of line 256 catches.
Record(ok) ==
    /\ pc = "record"
    /\ IF ok
       THEN /\ pc' = "track"
            /\ UNCHANGED <<pending, ev, alerts>>
       ELSE /\ ev' = [ev EXCEPT !.fault = "record"]
            /\ pending' = "fatal"
            /\ alerts' = [alerts EXCEPT !.fatal = @ + 1]
            /\ pc' = "dispatch"
    /\ UNCHANGED <<idx, round, consecutive_loss_counters, loaded_models,
                   TELEGRAM_ENABLED, credentials_set, rtt, packet_loss,
                   lastDispatch, exit, run, sinceAlert, alertsInRun, posts,
                   interrupted,
                   probes,
                   storage, samples, permuted, canonical>>
    /\ csv' = IF ok THEN append_sample(csv) ELSE csv

\* Lines 221-247 up to the call of send_telegram_alert.
Track(prediction) ==
    /\ pc = "track"
    /\ LET t == TARGETS[idx]
           before == consecutive_loss_counters[t]
           count == track(before, packet_loss)
           fired == should_alert(count)
           cls == runs_classifier(fired, rtt)
           res == check_rtt_anomaly(t, loaded_models, prediction)
           lossy == packet_loss >= PACKET_LOSS_THRESHOLD_PERCENT
           anomaly == cls /\ ~res.raised /\ res.is_anomaly
       IN /\ consecutive_loss_counters' =
                 [consecutive_loss_counters EXCEPT ![t] = count]
          /\ ev' = [ev EXCEPT !.decided = TRUE,
                              !.before = before,
                              !.outage = fired,
                              !.classified = cls,
                              !.anomaly = anomaly,
                              !.reason = IF cls THEN res.reason ELSE "",
                              !.fault = IF cls /\ res.raised THEN "classify"
                                        ELSE @,
                              !.gap = IF fired /\ sinceAlert[t] # -1
                                      THEN sinceAlert[t] + 1 ELSE -1]
          /\ run' = [run EXCEPT ![t] = IF lossy THEN @ + 1 ELSE 0]
          /\ alertsInRun' =
                 [alertsInRun EXCEPT ![t] = (IF lossy THEN @ ELSE 0)
                                            + (IF fired THEN 1 ELSE 0)]
          /\ sinceAlert' =
                 [sinceAlert EXCEPT ![t] =
                     IF fired THEN 0
                     ELSE IF @ = -1 THEN -1
                     ELSE Min(@ + 1, CONSECUTIVE_LOSS_TRIGGER)]
          /\ IF fired
             THEN /\ pending' = "outage"
                  /\ pc' = "dispatch"
                  /\ idx' = idx
             ELSE IF cls /\ res.raised
             THEN /\ pending' = "fatal"
                  /\ pc' = "dispatch"
                  /\ idx' = idx
             ELSE IF anomaly
             THEN /\ pending' = "latency"
                  /\ pc' = "dispatch"
                  /\ idx' = idx
             ELSE /\ pending' = "none"
                  /\ NextTarget
          /\ alerts' = IF ~fired /\ cls /\ res.raised
                       THEN [alerts EXCEPT !.fatal = @ + 1]
                       ELSE alerts
    /\ UNCHANGED <<round, loaded_models, TELEGRAM_ENABLED, credentials_set,
                   rtt, packet_loss, lastDispatch, exit, posts,
                   interrupted,
                   probes, csv,
                   storage, samples, permuted, canonical>>

\* send_telegram_alert runs; main continues after the call (or, had the
\* call raised, in the handler that catches the exception).
Dispatch(http) ==
    /\ pc = "dispatch"
    /\ lastDispatch' =
           send_telegram_alert(TELEGRAM_ENABLED, credentials_set, http)
    /\ posts' = http_attempts(TELEGRAM_ENABLED, credentials_set, http)
    /\ LET t == TARGETS[idx]
           raised == send_raises(TELEGRAM_ENABLED, credentials_set, http)
       IN IF raised
          THEN IF pending \in {"outage", "latency"}
               THEN /\ pending' = "fatal"
                    /\ alerts' = [alerts EXCEPT !.fatal = @ + 1]
                    /\ ev' = [ev EXCEPT !.fault = "dispatch"]
                    /\ UNCHANGED <<pc, idx, consecutive_loss_counters,
                                   exit>>
               ELSE /\ pending' = "none"
                    /\ pc' = "done"
                    /\ exit' = "crash"
                    /\ UNCHANGED <<idx, consecutive_loss_counters, alerts,
                                   ev>>
          ELSE /\ pending' = "none"
               /\ UNCHANGED <<alerts, ev>>
               /\ CASE pending = "startup" ->
                        /\ pc' = "probe"
                        /\ UNCHANGED <<idx, consecutive_loss_counters, exit>>
                   [] pending = "outage" ->
                        /\ consecutive_loss_counters' =
                               [consecutive_loss_counters EXCEPT
                                   ![t] = counter_after_dispatch(
                                              @, lastDispatch')]
                        /\ NextTarget
                        /\ UNCHANGED exit
                   [] pending = "latency" ->
                        /\ NextTarget
                        /\ UNCHANGED <<consecutive_loss_counters, exit>>
                   [] pending = "shutdown" ->
                        /\ pc' = after_handler
                        /\ exit' = "shutdown"
                        /\ UNCHANGED <<idx, consecutive_loss_counters>>
                   [] pending = "fatal" ->
                        /\ pc' = after_handler
                        /\ exit' = "fatal"
                        /\ UNCHANGED <<idx, consecutive_loss_counters>>
    /\ UNCHANGED <<round, loaded_models, TELEGRAM_ENABLED, credentials_set,
                   rtt, packet_loss, run, sinceAlert, alertsInRun,
                   interrupted,
                   probes, csv,
                   storage, samples, permuted, canonical>>

\* Line 250: time.sleep, then the next round.
Sleep ==
    /\ pc = "sleep"
    /\ round < MaxRounds
    /\ round' = round + 1
    /\ idx' = 1
    /\ pc' = "probe"
    /\ UNCHANGED <<consecutive_loss_counters, loaded_models,
                   TELEGRAM_ENABLED, credentials_set, rtt, packet_loss,
                   pending, lastDispatch, exit, ev, run, sinceAlert,
                   alertsInRun, posts, alerts, interrupted, csv,
                   storage, samples, permuted, canonical>>
    /\ probes' = [t \in TargetSet |-> 0]

InTry ==
    \/ pc \in {"probe", "record", "track", "sleep"}
    \/ pc = "dispatch" /\ pending \in {"outage", "latency"}

\* Lines 252-255: KeyboardInterrupt raised inside the try block.
Interrupt ==
    /\ InTry
    /\ pending' = "shutdown"
    /\ alerts' = [alerts EXCEPT !.shutdown = @ + 1]
    /\ interrupted' = TRUE
    /\ pc' = "dispatch"
    /\ UNCHANGED <<idx, round, consecutive_loss_counters, loaded_models,
                   TELEGRAM_ENABLED, credentials_set, rtt, packet_loss,
                   lastDispatch, exit, ev, run, sinceAlert, alertsInRun,
                   posts,
                   probes, csv,
                   storage, samples, permuted, canonical>>

\* KeyboardInterrupt before the try (lines 188-198) or inside a handler
\* (lines 255, 259): nothing catches it.
InterruptUncaught ==
    /\ \/ pc = "start"
       \/ pc = "dispatch" /\ pending \in {"startup", "shutdown", "fatal"}
    /\ pc' = "done"
    /\ exit' = "crash"
    /\ pending' = "none"
    /\ interrupted' = TRUE
    /\ UNCHANGED <<idx, round, consecutive_loss_counters, loaded_models,
                   TELEGRAM_ENABLED, credentials_set, rtt, packet_loss,
                   lastDispatch, ev, run, sinceAlert, alertsInRun, posts,
                   alerts,
                   probes, csv,
                   storage, samples, permuted, canonical>>

Next ==
    \/ \E present \in SUBSET TargetSet : Startup(present)
    \/ \E o \in ProbeOutcomes : Probe(o)
    \/ \E ok \in BOOLEAN : Record(ok)
    \/ \E prediction \in Predictions : Track(prediction)
    \/ \E http \in HttpOutcomes : Dispatch(http)
    \/ Sleep
    \/ Interrupt
    \/ InterruptUncaught

Spec == Init /\ [][Next]_vars

\* python train_model.py, run before the monitor is started.
Train ==
    /\ pc = "train"
    /\ storage' = train_and_save_models(storage, samples)
    /\ pc' = "start"
    /\ UNCHANGED <<idx, round, consecutive_loss_counters, loaded_models,
                   TELEGRAM_ENABLED, credentials_set, rtt, packet_loss,
                   pending, lastDispatch, exit, ev, run, sinceAlert,
                   alertsInRun, posts, alerts, interrupted, probes, csv,
                   samples, permuted, canonical>>

\* Before the training run: any model files from earlier runs, any number
\* of valid samples per target in the existing ping_data.csv.
InitTrain ==
    /\ pc = "train"
    /\ InitVars
    /\ csv \in CsvStates \ {NoFile}
    /\ storage \in SUBSET TargetSet
    /\ samples \in [TargetSet -> SampleCounts]

\* The monitor's first tick.
FirstTick == round = 0 /\ idx = 1

\* The training run, then the monitor up to the end of its first tick.
NextTrain ==
    \/ Train
    \/ \E present \in SUBSET TargetSet : Startup(present)
    \/ \E o \in ProbeOutcomes : FirstTick /\ Probe(o)
    \/ FirstTick /\ Record(TRUE)
    \/ \E prediction \in Predictions : FirstTick /\ Track(prediction)
    \/ \E http \in HttpOutcomes : FirstTick /\ Dispatch(http)

SpecTrain == InitTrain /\ [][NextTrain]_vars

\* What execute_ping, the CSV append and predict do in one tick.
TickInputs ==
    [rtt : {None, 20}, loss : {0, 100}, ok : BOOLEAN,
     prediction : Predictions]

\* The orders in which a round can take the targets.
Orders ==
    {o \in [1..Len(TARGETS) -> TargetSet] :
        \A i, j \in 1..Len(TARGETS) : o[i] = o[j] => i = j}

\* Lines 208-247 for target t as a function: the state a tick leaves.  A
\* tick after the loop ended does not happen; an exception of the append
\* or of predict ends the loop with the fatal alert (lines 256-259).
tick(st, t, inp, models) ==
    IF st.fatal THEN st
    ELSE IF ~inp.ok
    THEN [st EXCEPT !.fatal = TRUE, !.alerts = @ \cup {<<t, "fatal">>}]
    ELSE LET count == track(st.counters[t], inp.loss)
             fired == should_alert(count)
             cls == runs_classifier(fired, inp.rtt)
             res == check_rtt_anomaly(t, models, inp.prediction)
         IN IF fired
            THEN [st EXCEPT !.counters[t] = after_alert(count),
                            !.alerts = @ \cup {<<t, "outage">>}]
            ELSE IF cls /\ res.raised
            THEN [st EXCEPT !.counters[t] = count,
                            !.fatal = TRUE,
                            !.alerts = @ \cup {<<t, "fatal">>}]
            ELSE IF cls /\ res.is_anomaly
            THEN [st EXCEPT !.counters[t] = count,
                            !.alerts = @ \cup {<<t, "latency">>}]
            ELSE [st EXCEPT !.counters[t] = count]

\* Line 202: the for loop over the targets, taken in `order`.
RECURSIVE run_round(_, _, _, _)
run_round(order, st, plan, models) ==
    IF order = <<>> THEN st
    ELSE run_round(Tail(order),
                   tick(st, Head(order), plan[Head(order)], models),
                   plan, models)

\* One round of the loop in one step, next to the same round with the
\* targets taken in another order.
RunRound(order, plan) ==
    /\ pc = "probe"
    /\ idx = 1
    /\ round < MaxRounds
    /\ LET st == [counters |-> consecutive_loss_counters, alerts |-> {},
                  fatal |-> FALSE]
           can == run_round(TARGETS, st, plan, loaded_models)
       IN /\ canonical' = can
          /\ permuted' = run_round(order, st, plan, loaded_models)
          /\ consecutive_loss_counters' = can.counters
          /\ IF can.fatal
             THEN pc' = "done" /\ exit' = "fatal"
             ELSE pc' = "probe" /\ exit' = exit
    /\ round' = round + 1
    /\ UNCHANGED <<idx, loaded_models, TELEGRAM_ENABLED, credentials_set,
                   rtt, packet_loss, pending, lastDispatch, ev, run,
                   sinceAlert, alertsInRun, posts, alerts, interrupted,
                   probes, csv, storage, samples>>

\* The monitor's rounds, each one compared with its reordering.
NextOrder ==
    \/ \E present \in SUBSET TargetSet : Startup(present)
    \/ \E http \in HttpOutcomes : pending = "startup" /\ Dispatch(http)
    \/ \E order \in Orders, plan \in [TargetSet -> TickInputs] :
           RunRound(order, plan)

\* The default configuration: TELEGRAM_ENABLED falls back to False (line 28).
InitOrder == Init /\ ~TELEGRAM_ENABLED

SpecOrder == InitOrder /\ [][NextOrder]_vars

\* The default configuration (TELEGRAM_ENABLED falls back to False, line
\* 28), started with or without an existing ping_data.csv.
InitLog ==
    InitBase /\ ~TELEGRAM_ENABLED /\ csv \in CsvStates /\ storage = TargetSet

SpecLog == InitLog /\ [][Next]_vars

\* The tick loop when every call returns: no exception in the recorder or
\* in predict, and no KeyboardInterrupt.
NextQuiet ==
    \/ \E present \in SUBSET TargetSet : Startup(present)
    \/ \E o \in ProbeOutcomes : Probe(o)
    \/ Record(TRUE)
    \/ \E prediction \in {"inlier", "outlier"} : Track(prediction)
    \/ \E http \in HttpOutcomes : Dispatch(http)
    \/ Sleep

\* The configuration without config.ini: TELEGRAM_ENABLED falls back to
\* False (line 28) and every dispatch only prints.
InitFair == Init /\ ~TELEGRAM_ENABLED

\* The loop is sequential code: it always takes its next step.
SpecFair == InitFair /\ [][NextQuiet]_vars /\ WF_vars(NextQuiet)

\* ----------------------------------------------------------------- claims
Trigger == CONSECUTIVE_LOSS_TRIGGER

Threshold == PACKET_LOSS_THRESHOLD_PERCENT

\* The tick of ev.target has passed lines 221-247 (its decision is made).
Decided == ev.decided

\* Between two ticks: before a probe, or in time.sleep.
BetweenTicks == pc \in {"probe", "sleep"}

\* C1 as stated: an outage alert is decided exactly when the run of losing
\* readings reaches the trigger, and an uninterrupted run of losing
\* readings never gets a second outage alert.
C1_AsStated ==
    /\ Decided => (ev.outage <=> run[ev.target] = Trigger)
    /\ \A t \in TargetSet : alertsInRun[t] <= 1

\* C1 amended: an outage alert is decided exactly at the readings at which
\* the length of the current contiguous run of losing readings is a
\* positive multiple of the trigger; a run shorter than the trigger gets no
\* alert, and a run gets one alert per full trigger-many losing readings.
C1_AlertOnMultiples ==
    /\ Decided =>
          (ev.outage <=>
              run[ev.target] > 0 /\ run[ev.target] % Trigger = 0)
    /\ \A t \in TargetSet : alertsInRun[t] = run[t] \div Trigger

\* A run of twice the trigger got its second outage alert.
C1_Witness ==
    /\ Decided
    /\ ev.outage
    /\ run[ev.target] = 2 * Trigger
    /\ alertsInRun[ev.target] = 2

\* C2: a tick never decides both an outage alert and a latency alert, and
\* a tick that decides the outage alert does not call check_rtt_anomaly.
C2_AlertsExclusive ==
    /\ ~(ev.outage /\ ev.anomaly)
    /\ ev.outage => ~ev.classified

\* The outage alert fired on a reading that carries an RTT, for a target
\* that has a model: the classifier could have run and did not.
C2_Witness ==
    /\ ev.outage
    /\ rtt # None
    /\ ev.target \in loaded_models
    /\ ~ev.classified

\* C3 as stated: check_rtt_anomaly runs only in a tick whose packet loss is
\* below the outage threshold.
C3_ClassifyOnlyBelowThreshold ==
    Decided /\ ev.classified => packet_loss < Threshold

\* C4: after a reading below the threshold the target's counter is 0,
\* whatever it was before.
C4_NonLossResets ==
    Decided /\ packet_loss < Threshold =>
        consecutive_loss_counters[ev.target] = 0

\* A reading below the threshold met a counter of trigger - 1 and reset it.
C4_Witness ==
    /\ Decided
    /\ packet_loss < Threshold
    /\ ev.before = Trigger - 1
    /\ consecutive_loss_counters[ev.target] = 0

\* C5: the counters start at 0, between ticks every counter is in
\* 0..trigger-1, and a tick that fired the outage alert ends with 0.
C5_CounterRange ==
    /\ pc = "start" => \A t \in TargetSet : consecutive_loss_counters[t] = 0
    /\ BetweenTicks =>
          \A t \in TargetSet :
              consecutive_loss_counters[t] \in 0..(Trigger - 1)
    /\ BetweenTicks /\ Decided /\ ev.outage =>
          consecutive_loss_counters[ev.target] = 0

\* A tick that fired the outage alert has ended.
C5_Witness ==
    /\ BetweenTicks
    /\ Decided
    /\ ev.outage
    /\ ev.before = Trigger - 1
    /\ consecutive_loss_counters[ev.target] = 0

\* C6: an outage alert comes at least trigger ticks after the previous
\* outage alert of its target and ends trigger consecutive losing
\* readings, and the first losing reading after an outage alert counts 1.
C6_AlertSpacing ==
    /\ Decided /\ ev.outage =>
          /\ ev.gap = -1 \/ ev.gap >= Trigger
          /\ run[ev.target] >= Trigger
    /\ Decided /\ sinceAlert[ev.target] = 1 /\ packet_loss >= Threshold =>
          /\ ~ev.outage
          /\ consecutive_loss_counters[ev.target] = 1

\* A second outage alert, exactly trigger ticks after the first.
C6_Witness ==
    /\ Decided
    /\ ev.outage
    /\ ev.gap = Trigger

\* C7 as stated: a failed append to the sample log does not lead to the
\* fatal alert or to the end of the loop.
C7_RecorderFailureNotFatal ==
    ev.fault = "record" => pending # "fatal" /\ exit # "fatal"

\* C8 as stated: a predict that raises in one target's tick does not lead
\* to the fatal alert or to the end of the loop.
C8_ClassifierFailureIsolated ==
    ev.fault = "classify" => pending # "fatal" /\ exit # "fatal"

\* C9: a probe that cannot complete raises nothing, yields no RTT and 100%
\* loss, and the tracker counts it as a loss (one more, or the trigger is
\* reached and the outage alert fires).
C9_FailedProbeIsLoss ==
    ev.probeFailed =>
        /\ ev.fault # "probe"
        /\ rtt = None
        /\ packet_loss = 100
        /\ Decided =>
              IF ev.before + 1 >= Trigger
              THEN ev.outage
              ELSE consecutive_loss_counters[ev.target] = ev.before + 1

\* A failed probe raised the counter from 1 to 2.
C9_Witness ==
    /\ ev.probeFailed
    /\ Decided
    /\ ev.before = 1
    /\ consecutive_loss_counters[ev.target] = 2

\* C10: for a target without a loaded model check_rtt_anomaly returns
\* (False, "No model available.") without raising, and no latency alert is
\* decided for such a target.
C10_NoModelNoAnomaly ==
    /\ Decided /\ ev.classified /\ ev.target \notin loaded_models =>
          /\ ev.reason = "No model available."
          /\ ev.fault # "classify"
          /\ ~ev.anomaly
    /\ ev.anomaly \/ pending = "latency" => ev.target \in loaded_models

\* The classifier was called for a target without a model.
C10_Witness ==
    /\ Decided
    /\ ev.classified
    /\ ev.target \notin loaded_models
    /\ rtt = 250
    /\ ev.reason = "No model available."

\* A step of send_telegram_alert for an alert of the tick loop (not the
\* KeyboardInterrupt that may cut it short).
TickDispatchStep ==
    /\ pc = "dispatch"
    /\ pending \in {"outage", "latency"}
    /\ pending' # "shutdown"

\* C11: a dispatch makes at most one requests.post call and raises nothing
\* to main; after it, whatever the transport did, the tick loop is at the
\* next target (or in the sleep that ends the round) and still running.
C11_DispatchOnceNoRaise ==
    [][/\ posts' <= 1
       /\ ev'.fault # "dispatch"
       /\ TickDispatchStep =>
             /\ pending' = "none"
             /\ pc' \in {"probe", "sleep"}
             /\ exit' = "running"]_vars

\* An outage alert whose HTTP send got a non-200 answer: one attempt was
\* made and the loop went on.
C11_Witness ==
    /\ BetweenTicks
    /\ Decided
    /\ ev.outage
    /\ lastDispatch = "failed_status"
    /\ posts = 1
    /\ exit = "running"

\* C12 as stated: startup and shutdown alerts are sent once each, the
\* startup alert before the first probe, and a process ended by a
\* KeyboardInterrupt has dispatched its shutdown alert.
C12_LifecycleAlerts ==
    /\ alerts.startup <= 1
    /\ alerts.shutdown <= 1
    /\ pc \in {"probe", "record", "track", "sleep"} => alerts.startup = 1
    /\ pc = "done" /\ interrupted => exit = "shutdown"

\* C13: an exception that escapes the tick loop leads to one fatal alert
\* and to the end of main: once the fatal alert is dispatched nothing more
\* happens.
C13_FatalOnceThenStop ==
    /\ alerts.fatal <= 1
    /\ ev.fault \in {"record", "classify"} =>
          /\ alerts.fatal = 1
          /\ pc = "done" \/ (pc = "dispatch" /\ pending = "fatal")
    /\ exit = "fatal" =>
          /\ pc = "done"
          /\ alerts.fatal = 1
          /\ ~ENABLED Next

\* The fatal alert of a raising predict was dispatched and main ended.
C13_Witness ==
    /\ exit = "fatal"
    /\ ev.fault = "classify"
    /\ alerts.fatal = 1
    /\ pc = "done"

\* The reading of the tick was counted as a loss: one more on the counter,
\* or the trigger was reached and the outage alert fired.
Counted ==
    IF ev.before + 1 >= Trigger
    THEN ev.outage
    ELSE consecutive_loss_counters[ev.target] = ev.before + 1

\* C16: a reading is counted as a loss exactly when its packet loss is at
\* least the threshold; a reading equal to the threshold is counted.
C16_LossIffAtLeastThreshold ==
    Decided => (Counted <=> packet_loss >= Threshold)

\* A reading of exactly the threshold raised the counter from 0 to 1.
C16_Witness ==
    /\ Decided
    /\ packet_loss = Threshold
    /\ ev.before = 0
    /\ consecutive_loss_counters[ev.target] = 1

\* What the probe results alone say the tracker does with a reading.
ExpectedAlert(before, loss) ==
    loss >= Threshold /\ before + 1 >= Trigger

ExpectedCounter(before, loss) ==
    IF loss >= Threshold /\ before + 1 < Trigger THEN before + 1 ELSE 0

\* C19: the outage decision of a tick and the counter the tick leaves are
\* functions of the counter before the tick and of the probed packet loss
\* only, whatever the notification settings are and whatever the dispatch
\* did; after an outage alert, delivered or not, the counter is 0 and the
\* alert was attempted at most once.
C19_TrackerIgnoresChannel ==
    /\ Decided => (ev.outage <=> ExpectedAlert(ev.before, packet_loss))
    /\ Decided /\ BetweenTicks =>
          /\ consecutive_loss_counters[ev.target] =
                 ExpectedCounter(ev.before, packet_loss)
          /\ ev.outage => posts <= 1

\* An outage alert whose HTTP send raised: the tick ended with counter 0.
C19_Witness ==
    /\ BetweenTicks
    /\ Decided
    /\ ev.outage
    /\ lastDispatch = "failed_exception"
    /\ posts = 1
    /\ consecutive_loss_counters[ev.target] = 0

\* C17: when every call returns, every round probes every target once and
\* all explored rounds complete; and whenever the latest trigger-many
\* readings of a target were all losing, an outage alert for it was
\* emitted in one of those ticks (so an outage is reported within
\* trigger ticks, and again every trigger ticks while it lasts).
C17_ProbedAndAlerted ==
    /\ [](pc = "sleep" => \A t \in TargetSet : probes[t] = 1)
    /\ [](\A t \in TargetSet :
             run[t] >= Trigger => sinceAlert[t] \in 0..(Trigger - 1))
    /\ <>(pc = "sleep" /\ round = MaxRounds)

\* A target lost every reading of two triggers' worth of ticks and its
\* second outage alert has just been decided.
C17_Witness ==
    /\ \E t \in TargetSet :
          /\ run[t] = 2 * Trigger
          /\ sinceAlert[t] = 0
          /\ alertsInRun[t] = 2
    /\ exit = "running"
    /\ ~interrupted

\* Number of the tick in progress (of the next tick, before its probe).
TickNo == round * Len(TARGETS) + idx

\* C18: the records the file held at startup are never lost, a step adds
\* at most one record, the header is written only when the file did not
\* exist at startup, and the record of a tick's probe result (also of a
\* failed probe) is appended once, after the probe and before the tracker
\* and the tick's alert act.
C18_AppendOnlyLog ==
    /\ [][/\ csv'.old = csv.old
          /\ csv'.existed = csv.existed
          /\ csv'.new \in {csv.new, csv.new + 1}
          /\ csv'.headers >= csv.headers]_vars
    /\ [](csv.headers = IF csv.existed \/ alerts.startup = 0 THEN 0 ELSE 1)
    /\ [](pc \in {"probe", "record"} => csv.new = TickNo - 1)
    /\ [](pc \in {"track", "sleep"} => csv.new = TickNo)
    /\ [](pc = "dispatch" /\ pending \in {"outage", "latency"} =>
             csv.new = TickNo)

\* The outage alert of a failed probe is about to be dispatched; the file
\* existed at startup, kept its records and got the record of every tick.
C18_Witness ==
    /\ pc = "dispatch"
    /\ pending = "outage"
    /\ ev.probeFailed
    /\ rtt = None
    /\ csv.existed
    /\ csv.headers = 0
    /\ csv.old = 2
    /\ csv.new = TickNo

\* C15 as stated: after the training run a target with fewer than 50 valid
\* samples has no model file, and the monitor started afterwards has no
\* model for it.
C15_FewSamplesNoModel ==
    pc # "train" =>
        \A t \in TargetSet :
            samples[t] < MinSamples =>
                t \notin storage /\ t \notin loaded_models

\* C14 as stated: a round leaves the same counters and has sent the same
\* set of alerts in whatever order it takes its targets.
C14_OrderInsensitive ==
    /\ permuted.counters = canonical.counters
    /\ permuted.alerts = canonical.alerts

====
